---- MODULE Spec2Model ----
(***************************************************************************)
(* pex: a live pipeline pager.                                             *)
(*                                                                         *)
(*   stream.Buffer   append-only byte store with a line index              *)
(*   stream.Shared   a reader shared by several stream.Reader cursors      *)
(*   main.model      the pager list rebuilt by updatePagers on every edit  *)
(*                                                                         *)
(* Three specifications share the variables below; each one moves its own  *)
(* group of variables and leaves the others at their initial value.        *)
(*   SpecBuffer  Buffer.Append fed an input in arbitrary chunks            *)
(*   SpecShared  Reader.Read of several cursors, one step per lock region  *)
(*   SpecPagers  model.Update / model.updatePagers driven by key presses   *)
(***************************************************************************)
EXTENDS Integers, Sequences, FiniteSets, TLC

VARIABLES
    buf,        \* the stream.Buffer: [buf |-> bytes, lines |-> <<start, cr, lf>> triples]
    input,      \* SpecBuffer: the byte sequence being appended
    fed,        \* SpecBuffer: how many bytes of input have been appended
    cuts,       \* SpecBuffer: the lengths of the Append calls made so far
    query,      \* SpecQueries: the last Line or ReadAt call and what came of it
    mu,         \* Shared.mu: 0 when free, else the cursor holding it
    bmu,        \* SpecLocks: Buffer.mu, 0 when free, else the cursor holding it
    upos,       \* bytes the underlying reader r has handed out so far
    pc,         \* per cursor: where it stands inside Reader.Read
    off,        \* per cursor: Reader.off
    plen,       \* per cursor: len(p) of the Read call in progress
    rd,         \* per cursor: the bytes the call in progress has put in p
    rerr,       \* per cursor: the err the call in progress will return
    rep,        \* per cursor: what r.Read reported to the call in progress
    delivered,  \* per cursor: every byte its Read calls have returned, in order
    erred,      \* whether some Read has returned an error so far
    text,       \* model.bottomTextInput.Value(), a sequence of characters
    pos,        \* model.bottomTextInput.Position()
    commands,   \* model.commands: the Argv of each accepted command
    pipes,      \* model.pipes
    pagers,     \* model.pagers
    minPager,   \* model.minPager
    maxPager,   \* model.maxPager
    focusedPager, \* model.focusedPager
    err,        \* model.err: "nil", "parse" or "noargs"
    edited,     \* whether updatePagers has run
    closed,     \* the slots whose pager the last updatePagers called close on
    rebuilt,    \* the slots the last updatePagers filled by newCommandPager
    dying,      \* the slots whose running subprocess the last updatePagers
                \* cancelled and that has not terminated yet
    lastErr,    \* streamview.Model.lastErr: "nil", "EOF" or "ERR"
    readCmds,   \* the readCmds issued and not yet run: the lastErr each one sees
    readMsgs,   \* the readMsgs sent and not yet handled by Update: their err
    nLines,     \* m.buffer.NLines(): the stream is one byte, a LF, per line
    CurrentLine, \* streamview.Model.CurrentLine
    readerOff,  \* the off of m.reader
    arrived,    \* lines that reached the stream and that no Read has fetched yet
    slept       \* whether some readCmd has paused 50 ms before its Read

bufferVars == <<input, fed, cuts, query>>
pagerVars == <<text, pos, commands, pipes, pagers, minPager, maxPager, focusedPager,
               err, edited, closed, rebuilt, dying>>
sharedVars == <<mu, bmu, upos, pc, off, plen, rd, rerr, rep, delivered, erred>>
viewVars == <<lastErr, readCmds, readMsgs, nLines, CurrentLine, readerOff, arrived, slept>>

(***************************************************************************)
(* Bytes                                                                   *)
(***************************************************************************)
LF == 10
CR == 13
LetterH == 104

\* Bound of SpecBuffer: the longest input appended.
MaxInput == 4

\* Bounds of SpecShared: cursors, bytes the underlying reader ever yields, len(p).
NCursors == 2
MaxStream == 2
MaxP == 2

\* Bound of SpecPagers: the longest text typed.
MaxText == 4

\* Bound of SpecPipeline: the longest pipeline text typed.
MaxLine == 6

\* maxPagers of pex.go.
maxPagers == 3

InputBytes == {LetterH, CR, LF}

Min(a, b) == IF a < b THEN a ELSE b
Max(a, b) == IF a > b THEN a ELSE b

\* s[lo:hi] of Go, offsets counted from 0.
Slice(s, lo, hi) == SubSeq(s, lo + 1, hi)

\* bytes.IndexByte: offset of the first c in s, or -1.
IndexByte(s, c) ==
    IF \E k \in 1..Len(s) : s[k] = c
    THEN (CHOOSE k \in 1..Len(s) : s[k] = c /\ \A h \in 1..(k - 1) : s[h] # c) - 1
    ELSE -1

\* bytes.LastIndexByte: offset of the last c in s, or -1.
LastIndexByte(s, c) ==
    IF \E k \in 1..Len(s) : s[k] = c
    THEN (CHOOSE k \in 1..Len(s) : s[k] = c /\ \A h \in (k + 1)..Len(s) : s[h] # c) - 1
    ELSE -1

(***************************************************************************)
(* stream.Buffer                                                           *)
(***************************************************************************)
NewBuffer == [buf |-> <<>>, lines |-> <<>>]

\* A lastLineEnd that goes back to the start of the last entry kept.
lastLineEndAtStart(lines) ==
    IF Len(lines) > 0 THEN lines[Len(lines)][1] ELSE 0

\* A lastLineEnd that stops on the terminator instead of after it.
lastLineEndOnTerminator(lines) ==
    IF Len(lines) > 0 THEN lines[Len(lines)][3] ELSE 0

\* Buffer.lastLineEnd over a line index.
lastLineEnd(lines) ==
    IF Len(lines) > 0 THEN lines[Len(lines)][3] + 1 ELSE 0

\* The appendLine closure of Buffer.Append: the entry for bytes[start:end].
appendLine(lines, bytes, start, end) ==
    LET line == Slice(bytes, start, end)
        cr == LastIndexByte(line, CR)
        lineLen == IF cr < 0 THEN Len(line) ELSE cr
    IN Append(lines, <<start, start + lineLen, start + Len(line)>>)

\* The for loop of Buffer.Append: one entry per LF found from lineEnd + j on.
RECURSIVE scanLines(_, _, _, _)
scanLines(lines, bytes, lineEnd, j) ==
    LET lineBuf == Slice(bytes, lineEnd + j, Len(bytes))
        i == IndexByte(lineBuf, LF)
    IN IF i < 0
       THEN lines
       ELSE scanLines(appendLine(lines, bytes, lineEnd + j, lineEnd + j + i),
                      bytes, lineEnd, j + i + 1)

\* A Buffer.Append that keeps the final entry instead of re-processing it.
keepAllLines(lines) == lines

\* Buffer.Append drops the final entry: "need to re-process the final line".
dropFinalLine(lines) ==
    IF Len(lines) > 0 THEN SubSeq(lines, 1, Len(lines) - 1) ELSE lines

\* Buffer.Append(p) as a function of the Buffer value.
BufferAppend(b, p) ==
    IF Len(p) = 0
    THEN b
    ELSE LET kept == dropFinalLine(b.lines)
             lineEnd == lastLineEnd(kept)
             bytes == b.buf \o p
             scanned == scanLines(kept, bytes, lineEnd, 0)
             final == IF bytes[Len(bytes)] # LF
                      THEN appendLine(scanned, bytes, lastLineEnd(scanned), Len(bytes))
                      ELSE scanned
         IN [buf |-> bytes, lines |-> final]

BufferLen(b) == Len(b.buf)

BufferNLines(b) == Len(b.lines)

\* Buffer.Line(n); "" is the empty sequence.
BufferLine(b, n) ==
    IF n < 0 \/ n >= Len(b.lines)
    THEN <<>>
    ELSE Slice(b.buf, b.lines[n + 1][1], b.lines[n + 1][2])

\* Buffer.ReadAt(p, off) with len(p) = n: the bytes copied into p.
BufferReadAt(b, n, at) == Slice(b.buf, at, Min(Len(b.buf), at + n))

\* Buffer.ReadAt(p, off): b.buf[off:] is a slice expression, which panics at
\* run time unless 0 <= off <= len(b.buf).
BufferReadAtPanics(b, at) == at < 0 \/ at > Len(b.buf)

(***************************************************************************)
(* stream.Shared and stream.Reader                                         *)
(*                                                                         *)
(* Reader.Read takes one step per region in which it holds Buffer.mu, one  *)
(* for Shared.mu.Lock, one for the read of the underlying reader and one   *)
(* for the deferred Unlock together with the return.                       *)
(***************************************************************************)
Cursors == 1..NCursors

\* What the underlying reader yields, byte by byte: all different but for the LF.
StreamByte(i) == IF i = 2 THEN LF ELSE LetterH + i

StreamData == [i \in 1..MaxStream |-> StreamByte(i)]

\* Every byte the underlying reader has returned so far, in order.
Fetched == Slice(StreamData, 0, upos)

NoReport == [n |-> -1, err |-> "none"]

InitSharedIdle ==
    /\ mu = 0
    /\ bmu = 0
    /\ upos = 0
    /\ pc = [c \in Cursors |-> "idle"]
    /\ off = [c \in Cursors |-> 0]
    /\ plen = [c \in Cursors |-> 0]
    /\ rd = [c \in Cursors |-> <<>>]
    /\ rerr = [c \in Cursors |-> "nil"]
    /\ rep = [c \in Cursors |-> NoReport]
    /\ delivered = [c \in Cursors |-> <<>>]
    /\ erred = FALSE

\* NewShared, then one Shared.Reader per cursor: every off is 0.
InitShared ==
    /\ InitSharedIdle
    /\ buf = NewBuffer

\* The return of Read: the caller gets bytes and err; the call's locals are gone.
returned(c, bytes, e) ==
    /\ delivered' = [delivered EXCEPT ![c] = @ \o bytes]
    /\ erred' = (erred \/ e # "nil")
    /\ pc' = [pc EXCEPT ![c] = "idle"]
    /\ plen' = [plen EXCEPT ![c] = 0]
    /\ rd' = [rd EXCEPT ![c] = <<>>]
    /\ rerr' = [rerr EXCEPT ![c] = "nil"]
    /\ rep' = [rep EXCEPT ![c] = NoReport]

\* A Read that goes for the lock before it looks at the buffer at all.
Check1LockFirst(c) ==
    /\ pc[c] = "idle"
    /\ \E n \in 1..MaxP : plen' = [plen EXCEPT ![c] = n]
    /\ pc' = [pc EXCEPT ![c] = "lock"]
    /\ UNCHANGED <<buf, mu, upos, off, rd, rerr, rep, delivered, erred, bmu, bufferVars, viewVars, pagerVars>>

\* Read(p) is entered with a non-empty p: if r.off < r.s.buf.Len(), lock not held.
Check1(c) ==
    /\ pc[c] = "idle"
    /\ \E n \in 1..MaxP : plen' = [plen EXCEPT ![c] = n]
    /\ pc' = [pc EXCEPT ![c] = IF off[c] < BufferLen(buf) THEN "readat1" ELSE "lock"]
    /\ UNCHANGED <<buf, mu, upos, off, rd, rerr, rep, delivered, erred, bmu, bufferVars, viewVars, pagerVars>>

\* A buffered read that hands out the bytes and leaves r.off where it was.
ReadAt1KeepOff(c) ==
    /\ pc[c] = "readat1"
    /\ returned(c, BufferReadAt(buf, plen[c], off[c]), "nil")
    /\ UNCHANGED <<buf, mu, upos, off, bmu, bufferVars, viewVars, pagerVars>>

\* n, err := r.s.buf.ReadAt(p, r.off); r.off += n; return n, err, lock not held.
ReadAt1(c) ==
    /\ pc[c] = "readat1"
    /\ LET bytes == BufferReadAt(buf, plen[c], off[c])
       IN /\ off' = [off EXCEPT ![c] = @ + Len(bytes)]
          /\ returned(c, bytes, "nil")
    /\ UNCHANGED <<buf, mu, upos, bmu, bufferVars, viewVars, pagerVars>>

\* A Lock that does not wait for the holder to leave.
LockBarging(c) ==
    /\ pc[c] = "lock"
    /\ mu' = c
    /\ pc' = [pc EXCEPT ![c] = "check2"]
    /\ UNCHANGED <<buf, upos, off, plen, rd, rerr, rep, delivered, erred, bmu, bufferVars, viewVars, pagerVars>>

\* r.s.mu.Lock()
Lock(c) ==
    /\ pc[c] = "lock"
    /\ mu = 0
    /\ mu' = c
    /\ pc' = [pc EXCEPT ![c] = "check2"]
    /\ UNCHANGED <<buf, upos, off, plen, rd, rerr, rep, delivered, erred, bmu, bufferVars, viewVars, pagerVars>>

\* Lock-then-read: no second look at the buffer.
Check2Skipped(c) ==
    /\ pc[c] = "check2"
    /\ pc' = [pc EXCEPT ![c] = "uread"]
    /\ UNCHANGED <<buf, mu, upos, off, plen, rd, rerr, rep, delivered, erred, bmu, bufferVars, viewVars, pagerVars>>

\* if r.off < r.s.buf.Len(), again, holding the lock.
Check2(c) ==
    /\ pc[c] = "check2"
    /\ pc' = [pc EXCEPT ![c] = IF off[c] < BufferLen(buf) THEN "readat2" ELSE "uread"]
    /\ UNCHANGED <<buf, mu, upos, off, plen, rd, rerr, rep, delivered, erred, bmu, bufferVars, viewVars, pagerVars>>

\* A locked buffered read that moves r.off by len(p), not by the bytes copied.
ReadAt2AdvanceLen(c) ==
    /\ pc[c] = "readat2"
    /\ off' = [off EXCEPT ![c] = @ + plen[c]]
    /\ returned(c, BufferReadAt(buf, plen[c], off[c]), "nil")
    /\ mu' = 0
    /\ UNCHANGED <<buf, upos, bmu, bufferVars, viewVars, pagerVars>>

\* n, err := r.s.buf.ReadAt(p, r.off); r.off += n; return n, err, holding the
\* lock: the deferred Unlock runs.
ReadAt2(c) ==
    /\ pc[c] = "readat2"
    /\ LET bytes == BufferReadAt(buf, plen[c], off[c])
       IN /\ off' = [off EXCEPT ![c] = @ + Len(bytes)]
          /\ returned(c, bytes, "nil")
    /\ mu' = 0
    /\ UNCHANGED <<buf, upos, bmu, bufferVars, viewVars, pagerVars>>

\* What one Read(p) of the underlying reader may report, len(p) = n: some of the
\* bytes still to come, with no error, or with EOF when they are the last; or no
\* byte and EOF or another error, which a reader whose writer is still at work
\* reports at any point (a pipe waits instead: the step is not taken yet).
StreamReports(n) ==
    {[n |-> k, err |-> "nil"] : k \in 1..Min(n, MaxStream - upos)}
    \cup {[n |-> k, err |-> "EOF"] : k \in {Min(n, MaxStream - upos)} \cap {MaxStream - upos}}
    \cup {[n |-> 0, err |-> "EOF"], [n |-> 0, err |-> "ERR"]}

\* A Shared that keeps an error once returned and hands it out again.
ReadUnderlyingSticky(c) ==
    /\ pc[c] = "uread"
    /\ IF erred
       THEN /\ rerr' = [rerr EXCEPT ![c] = "EOF"]
            /\ pc' = [pc EXCEPT ![c] = "ret"]
            /\ UNCHANGED <<upos, rd, rep>>
       ELSE \E r \in StreamReports(plen[c]) :
                /\ rep' = [rep EXCEPT ![c] = r]
                /\ rd' = [rd EXCEPT ![c] = Slice(StreamData, upos, upos + r.n)]
                /\ rerr' = [rerr EXCEPT ![c] = r.err]
                /\ upos' = upos + r.n
                /\ pc' = [pc EXCEPT ![c] = IF r.n > 0 THEN "append" ELSE "ret"]
    /\ UNCHANGED <<buf, mu, off, plen, delivered, erred, bmu, bufferVars, viewVars, pagerVars>>

\* n, err := r.s.r.Read(p)
ReadUnderlying(c) ==
    /\ pc[c] = "uread"
    /\ \E r \in StreamReports(plen[c]) :
           /\ rep' = [rep EXCEPT ![c] = r]
           /\ rd' = [rd EXCEPT ![c] = Slice(StreamData, upos, upos + r.n)]
           /\ rerr' = [rerr EXCEPT ![c] = r.err]
           /\ upos' = upos + r.n
           /\ pc' = [pc EXCEPT ![c] = IF r.n > 0 THEN "append" ELSE "ret"]
    /\ UNCHANGED <<buf, mu, off, plen, delivered, erred, bmu, bufferVars, viewVars, pagerVars>>

\* An append made only when the read reported no error.
AppendFetchedIfNoError(c) ==
    /\ pc[c] = "append"
    /\ buf' = IF rerr[c] = "nil" THEN BufferAppend(buf, rd[c]) ELSE buf
    /\ pc' = [pc EXCEPT ![c] = "ret"]
    /\ UNCHANGED <<mu, upos, off, plen, rd, rerr, rep, delivered, erred, bmu, bufferVars, viewVars, pagerVars>>

\* if n > 0 { r.s.buf.Append(p[:n]) }
AppendFetched(c) ==
    /\ pc[c] = "append"
    /\ buf' = BufferAppend(buf, rd[c])
    /\ pc' = [pc EXCEPT ![c] = "ret"]
    /\ UNCHANGED <<mu, upos, off, plen, rd, rerr, rep, delivered, erred, bmu, bufferVars, viewVars, pagerVars>>

\* return n, err after the underlying read; the deferred Unlock runs.
\* r.off is left as it was.
ReturnFetched(c) ==
    /\ pc[c] = "ret"
    /\ mu' = 0
    /\ returned(c, rd[c], rerr[c])
    /\ UNCHANGED <<buf, upos, off, bmu, bufferVars, viewVars, pagerVars>>

NextShared ==
    \/ \E c \in Cursors : Check1(c)
    \/ \E c \in Cursors : ReadAt1(c)
    \/ \E c \in Cursors : Lock(c)
    \/ \E c \in Cursors : Check2(c)
    \/ \E c \in Cursors : ReadAt2(c)
    \/ \E c \in Cursors : ReadUnderlying(c)
    \/ \E c \in Cursors : AppendFetched(c)
    \/ \E c \in Cursors : ReturnFetched(c)

(***************************************************************************)
(* shell.Parse over texts made of the characters a, space and |            *)
(***************************************************************************)
Chars == {"a", " ", "|"}

\* strings.TrimRightFunc(s, unicode.IsSpace)
TrimRight(s) ==
    IF \A k \in 1..Len(s) : s[k] = " "
    THEN <<>>
    ELSE SubSeq(s, 1, CHOOSE k \in 1..Len(s) :
                          s[k] # " " /\ \A h \in (k + 1)..Len(s) : s[h] = " ")

HasSuffixPipe(s) == Len(s) >= 1 /\ s[Len(s)] = "|"

HasSuffixPipePipe(s) == Len(s) >= 2 /\ s[Len(s)] = "|" /\ s[Len(s) - 1] = "|"

\* The offsets of the | characters of s, ascending.
RECURSIVE PipeOffsets(_, _)
PipeOffsets(s, from) ==
    IF from >= Len(s)
    THEN <<>>
    ELSE IF s[from + 1] = "|"
         THEN <<from>> \o PipeOffsets(s, from + 1)
         ELSE PipeOffsets(s, from + 1)

\* The words of s: its maximal runs of characters other than space.
RECURSIVE Fields(_)
Fields(s) ==
    IF Len(s) = 0
    THEN <<>>
    ELSE IF s[1] = " "
         THEN Fields(Tail(s))
         ELSE LET n == IF \A k \in 1..Len(s) : s[k] # " "
                       THEN Len(s)
                       ELSE (CHOOSE k \in 1..Len(s) :
                                 s[k] = " " /\ \A h \in 1..(k - 1) : s[h] # " ") - 1
              IN <<SubSeq(s, 1, n)>> \o Fields(SubSeq(s, n + 1, Len(s)))

Reverse(s) == [k \in 1..Len(s) |-> s[Len(s) + 1 - k]]

\* sort.Slice(pipes, less): the elements of s in ascending order.
RECURSIVE SortInts(_)
SortInts(s) ==
    IF Len(s) = 0
    THEN <<>>
    ELSE LET k == CHOOSE k \in 1..Len(s) : \A h \in 1..Len(s) : s[k] <= s[h]
         IN <<s[k]>> \o SortInts(SubSeq(s, 1, k - 1) \o SubSeq(s, k + 1, Len(s)))

\* parser.Parse and the syntax.Walk passes of Parse on such a text: the pieces
\* between the | are the statements of one pipeline; a blank piece next to a |
\* is a syntax error or the unsupported ||; a blank text has no statement. The
\* pipes come in Walk order, the outermost (rightmost) BinaryCmd first.
SyntaxParse(s) ==
    LET offs == PipeOffsets(s, 0)
        n == Len(offs)
        piece(k) == Slice(s, IF k = 1 THEN 0 ELSE offs[k - 1] + 1,
                             IF k = n + 1 THEN Len(s) ELSE offs[k])
        argvs == [k \in 1..(n + 1) |-> Fields(piece(k))]
    IN IF n = 0 /\ Len(argvs[1]) = 0
       THEN [err |-> FALSE, commands |-> <<>>, pipes |-> <<>>]
       ELSE IF \E k \in 1..(n + 1) : Len(argvs[k]) = 0
            THEN [err |-> TRUE, commands |-> <<>>, pipes |-> <<>>]
            ELSE [err |-> FALSE, commands |-> argvs, pipes |-> Reverse(offs)]

\* shell.Parse: (commands, pipes, err). A Command is its Argv; Raw is not kept.
Parse(orig) ==
    LET trimEnd == TrimRight(orig)
        hasTrailing == HasSuffixPipe(trimEnd) /\ ~HasSuffixPipePipe(trimEnd)
        s == IF hasTrailing THEN SubSeq(trimEnd, 1, Len(trimEnd) - 1) ELSE orig
        trailingPipe == Len(trimEnd) - 1
        f == SyntaxParse(s)
    IN IF f.err
       THEN [err |-> TRUE, commands |-> <<>>, pipes |-> <<>>]
       ELSE IF Len(f.commands) = 0
            THEN [err |-> hasTrailing, commands |-> <<>>, pipes |-> <<>>]
            ELSE [err |-> FALSE,
                  commands |-> IF hasTrailing THEN Append(f.commands, <<>>) ELSE f.commands,
                  pipes |-> SortInts(IF hasTrailing THEN Append(f.pipes, trailingPipe)
                                     ELSE f.pipes)]

\* A Command.Equal that compares the program names only.
CommandEqualNames(p, q) ==
    (Len(p) = 0) = (Len(q) = 0) /\ (Len(p) = 0 \/ p[1] = q[1])

\* Command.Equal: slices.Equal(p.Argv, q.Argv)
CommandEqual(p, q) == p = q

CommandEmpty(p) == Len(p) = 0

\* Command.Name, "" being the empty sequence.
CommandName(p) == IF CommandEmpty(p) THEN <<>> ELSE p[1]

CommandArgs(p) == IF CommandEmpty(p) THEN <<>> ELSE Tail(p)

\* sort.SearchInts(a, x): the smallest index i with a[i] >= x, or len(a).
SearchInts(a, x) ==
    CHOOSE i \in 0..Len(a) :
        /\ (i < Len(a) => a[i + 1] >= x)
        /\ \A h \in 0..(i - 1) : a[h + 1] < x

(***************************************************************************)
(* main.pager                                                              *)
(*                                                                         *)
(* A pager stays in the slot of m.pagers it was put in until it is dropped *)
(* or replaced there. The Shared a subprocess reads its standard input     *)
(* from is therefore told by one word: "live" when it is the Shared of the *)
(* pager now in the slot before, "stale" when that pager has since been    *)
(* replaced or dropped, "none" without a subprocess. Of the off of the     *)
(* Reader the subprocess reads through, stdinMoved keeps whether it is     *)
(* past 0. Of Command only Argv is kept; the streamview of a pager is left *)
(* out.                                                                    *)
(***************************************************************************)
\* newPager(r, name) with the zero values of the other fields. exited is
\* whether the subprocess of p.cmd has terminated by itself.
newPager(src) ==
    [src |-> src, command |-> <<>>, isErr |-> FALSE, cmd |-> FALSE,
     cancel |-> FALSE, stdin |-> "none", stdinMoved |-> FALSE, exited |-> FALSE,
     focused |-> FALSE]

newReadPager == newPager("input")

newEmptyPager == newPager("empty")

\* A newErrorPager that does not record the command it stands for.
newErrorPagerUnnamed(command) == [newPager("error") EXCEPT !.isErr = TRUE]

\* newErrorPager(err, command): a pager on strings.NewReader(err.Error()).
newErrorPager(command) ==
    [newPager("error") EXCEPT !.isErr = TRUE, !.command = command]

\* A newCommandPager that leaves p.command unset on the pager it launches.
newCommandPagerUnnamed(r, command, ok) ==
    IF CommandEmpty(command)
    THEN newEmptyPager
    ELSE IF ~ok
         THEN newErrorPager(command)
         ELSE [newPager("output") EXCEPT !.cmd = TRUE, !.cancel = TRUE, !.stdin = r]

\* newCommandPager(r, command): r is "live" or "stale" as above, ok is whether
\* StdoutPipe and Start succeed; cmd.Stdin = r.Reader() is a Reader with off 0,
\* the stdinMoved of newPager.
newCommandPager(r, command, ok) ==
    IF CommandEmpty(command)
    THEN newEmptyPager
    ELSE IF ~ok
         THEN newErrorPager(command)
         ELSE [newPager("output") EXCEPT !.command = command, !.cmd = TRUE,
                                         !.cancel = TRUE, !.stdin = r]

\* A stage count that leaves out the placeholder after the last command.
nPagersBare(cmds) == Len(cmds)

\* nPagers := len(m.commands) + 1
nPagers(cmds) == Len(cmds) + 1

\* for nPagers > len(m.pagers) { m.pagers = append(m.pagers, newEmptyPager()) }
RECURSIVE padPagers(_, _)
padPagers(ps, n) ==
    IF n > Len(ps)
    THEN padPagers(Append(ps, newEmptyPager), n)
    ELSE ps

\* A truncation that drops the excess stages without closing them.
closeExcessNone(ps, n) == {}

\* for _, p := range m.pagers[nPagers:] { p.close() }: the slots closed.
closeExcess(ps, n) == n..(Len(ps) - 1)

\* A close that waits for the subprocess it cancels, as cmd.Wait() would:
\* when it returns the subprocess has terminated.
closeWaiting(p) == FALSE

\* p.close(): if p.cancel != nil { p.cancel() }. cancel() cancels the context
\* of exec.CommandContext and returns; a subprocess still running is killed
\* after that, one that has exited is not touched, and without a cancel handle
\* nothing is done. The value is whether the call returns with a subprocess
\* left to terminate.
close(p) == p.cancel /\ ~p.exited

\* m.pagers = m.pagers[:nPagers]
truncatePagers(ps, n) == SubSeq(ps, 1, n)

\* A scan without the break: the last i >= 1 whose command differs, or -1.
rebuildIndexLast(ps, cmds) ==
    LET differs == {i \in 1..(Len(ps) - 1) : ~CommandEqual(ps[i + 1].command, cmds[i])}
    IN IF differs = {}
       THEN -1
       ELSE CHOOSE i \in differs : \A h \in differs : i >= h

\* The scan for rebuildIdx: the first i >= 1 with
\* !m.pagers[i].command.Equal(m.commands[i-1]), or -1.
rebuildIndex(ps, cmds) ==
    LET differs == {i \in 1..(Len(ps) - 1) : ~CommandEqual(ps[i + 1].command, cmds[i])}
    IN IF differs = {}
       THEN -1
       ELSE CHOOSE i \in differs : \A h \in differs : i <= h

\* The Shared of the pager that stood in slot i-1 when the loop began.
stdinSourceStale(i, rebuiltSoFar) ==
    IF i - 1 \in rebuiltSoFar THEN "stale" ELSE "live"

\* m.pagers[i-1].shared at the time slot i is rebuilt: the pager now in slot i-1.
stdinSource(i, rebuiltSoFar) == "live"

\* m.pagers[i] = p: the pager after it, if it stays, now reads a replaced Shared.
replacePager(ps, i, p) ==
    [k \in 1..Len(ps) |->
        IF k = i + 1 THEN p
        ELSE IF k = i + 2 /\ ps[k].stdin = "live" THEN [ps[k] EXCEPT !.stdin = "stale"]
        ELSE ps[k]]

\* for i := rebuildIdx; i < len(m.pagers); i++ {
\*     m.pagers[i].close(); p := newCommandPager(m.pagers[i-1].shared, m.commands[i-1])
\*     m.pagers[i] = p }
RECURSIVE rebuildPagers(_, _, _, _)
rebuildPagers(st, i, cmds, fails) ==
    IF i < Len(st.pagers)
    THEN rebuildPagers(
             [pagers |-> replacePager(st.pagers, i,
                             newCommandPager(stdinSource(i, st.rebuilt), cmds[i],
                                             i \notin fails)),
              closed |-> st.closed \cup {i},
              rebuilt |-> st.rebuilt \cup {i}],
             i + 1, cmds, fails)
    ELSE st

\* An err that is Parse's alone: a bare program name is run as it is typed.
editErrorParseOnly(rawShell, parsed) == IF parsed.err THEN "parse" ELSE "nil"

\* The err of updatePagers: Parse's, or "to execute %q without args, press space".
editError(rawShell, parsed) ==
    IF parsed.err
    THEN "parse"
    ELSE IF Len(parsed.commands) > 0
         THEN LET last == parsed.commands[Len(parsed.commands)]
              IN IF /\ CommandName(last) # <<>>
                    /\ Len(CommandArgs(last)) = 0
                    /\ ~(Len(rawShell) > 0 /\ rawShell[Len(rawShell)] = " ")
                 THEN "noargs"
                 ELSE "nil"
         ELSE "nil"

\* A window that follows the focus to the right only.
slideWindowRightOnly(focus, n) ==
    LET max1 == Min(maxPager, n - 1)
        right == focus > max1
        max2 == IF right THEN focus ELSE max1
    IN [min |-> IF right THEN Max(0, max2 - maxPagers + 1) ELSE minPager,
        max |-> max2]

\* A window that slides right one stage short of the focus's due.
slideWindowWide(focus, n) ==
    LET max1 == Min(maxPager, n - 1)
        right == focus > max1
        max2 == IF right THEN focus ELSE max1
        min2 == IF right THEN Max(0, max2 - maxPagers) ELSE minPager
        left == focus < min2
    IN [min |-> IF left THEN focus ELSE min2,
        max |-> IF left THEN Min(focus + maxPagers - 1, n) ELSE max2]

\* The end of updatePagers: "show up to maxPagers pagers, ensuring that the
\* focused pager is visible", n being len(m.pagers).
slideWindow(focus, n) ==
    LET max1 == Min(maxPager, n - 1)
        right == focus > max1
        max2 == IF right THEN focus ELSE max1
        min2 == IF right THEN Max(0, max2 - maxPagers + 1) ELSE minPager
        left == focus < min2
    IN [min |-> IF left THEN focus ELSE min2,
        max |-> IF left THEN Min(focus + maxPagers - 1, n) ELSE max2]

\* model.updatePagers with the text and the cursor as they now are. Which of
\* the subprocesses it launches fail to start is the environment's choice.
\* errText holds the message of err whenever err is not nil.
updatePagers(rawShell, position) ==
    \E parsed \in {Parse(rawShell)} :
    \E e \in {editError(rawShell, parsed)} :
    \E cmds \in {IF e = "nil" THEN parsed.commands ELSE commands} :
    \E pps \in {IF e = "nil" THEN <<0>> \o parsed.pipes ELSE pipes} :
    \E padded \in {padPagers(pagers, nPagers(cmds))} :
    \E kept \in {truncatePagers(padded, nPagers(cmds))} :
    \E rebuildIdx \in {rebuildIndex(kept, cmds)} :
    \E fails \in SUBSET {i \in 1..Len(cmds) :
                             rebuildIdx > 0 /\ i >= rebuildIdx /\ ~CommandEmpty(cmds[i])} :
    \E st \in {IF rebuildIdx > 0
               THEN rebuildPagers([pagers |-> kept,
                                   closed |-> closeExcess(padded, nPagers(cmds)),
                                   rebuilt |-> {}], rebuildIdx, cmds, fails)
               ELSE [pagers |-> kept, closed |-> closeExcess(padded, nPagers(cmds)),
                     rebuilt |-> {}]} :
    \E focus \in {SearchInts(pps, position)} :
    \E window \in {slideWindow(focus, Len(st.pagers))} :
       /\ dying' = {i \in st.closed : close(padded[i + 1])}
       /\ err' = e
       /\ commands' = cmds
       /\ pipes' = pps
       /\ pagers' = [k \in 1..Len(st.pagers) |->
                         [st.pagers[k] EXCEPT !.focused = (k - 1 = focus)]]
       /\ closed' = st.closed
       /\ rebuilt' = st.rebuilt
       /\ focusedPager' = focus
       /\ minPager' = window.min
       /\ maxPager' = window.max
       /\ edited' = TRUE

(***************************************************************************)
(* main.model: newModel and Update                                         *)
(***************************************************************************)
InitPagersIdle ==
    /\ text = <<>>
    /\ pos = 0
    /\ commands = <<>>
    /\ pipes = <<>>
    /\ pagers = <<>>
    /\ minPager = 0
    /\ maxPager = 0
    /\ focusedPager = 0
    /\ err = "nil"
    /\ edited = FALSE
    /\ closed = {}
    /\ rebuilt = {}
    /\ dying = {}

\* newModel: p0 and an empty pager, p0 focused, nothing typed.
InitPagers ==
    /\ text = <<>>
    /\ pos = 0
    /\ commands = <<>>
    /\ pipes = <<>>
    /\ pagers = <<[newReadPager EXCEPT !.focused = TRUE], newEmptyPager>>
    /\ minPager = 0
    /\ maxPager = 0
    /\ focusedPager = 0
    /\ err = "nil"
    /\ edited = FALSE
    /\ closed = {}
    /\ rebuilt = {}
    /\ dying = {}
    /\ buf = NewBuffer

\* The part of Update after bottomTextInput.Update: updatePagers when the text
\* or the cursor changed.
afterInput(newText, newPos) ==
    /\ text' = newText
    /\ pos' = newPos
    /\ IF newPos # pos \/ newText # text
       THEN updatePagers(newText, newPos)
       ELSE UNCHANGED <<commands, pipes, pagers, minPager, maxPager, focusedPager,
                        err, edited, closed, rebuilt, dying>>
    /\ UNCHANGED <<buf, bufferVars, viewVars, sharedVars>>

\* Update with a character typed: the text input inserts it at the cursor.
KeyRune ==
    /\ Len(text) < MaxText
    /\ \E ch \in Chars :
           afterInput(SubSeq(text, 1, pos) \o <<ch>> \o SubSeq(text, pos + 1, Len(text)),
                      pos + 1)

\* Update with backspace: the text input deletes the character before the cursor.
KeyBackspace ==
    /\ pos > 0
    /\ afterInput(SubSeq(text, 1, pos - 1) \o SubSeq(text, pos + 1, Len(text)), pos - 1)

\* Update with left: the text input moves the cursor.
KeyLeft ==
    /\ pos > 0
    /\ afterInput(text, pos - 1)

\* Update with right.
KeyRight ==
    /\ pos < Len(text)
    /\ afterInput(text, pos + 1)

\* bottomTextInput.SetCursor: the position clamped to the text.
SetCursor(p) == Max(0, Min(p, Len(text)))

\* case key.Matches(msg, m.keymap.next): where tab sends the cursor.
nextPos ==
    LET cur == SearchInts(pipes, pos)
    IN IF cur = Len(pipes) THEN Len(text)
       ELSE IF pipes[cur + 1] # pos THEN pipes[cur + 1]
       ELSE IF cur < Len(pipes) - 1 THEN pipes[cur + 2]
       ELSE Len(text)

\* case key.Matches(msg, m.keymap.prev): where shift+tab sends the cursor.
prevPos ==
    LET cur == SearchInts(pipes, pos)
    IN IF cur = 0 THEN 0
       ELSE IF pipes[cur] # pos THEN pipes[cur]
       ELSE 0

\* Update with tab.
KeyNext ==
    \E p \in {SetCursor(nextPos)} : afterInput(text, p)

\* Update with shift+tab.
KeyPrev ==
    \E p \in {SetCursor(prevPos)} : afterInput(text, p)

\* The subprocess of a pager reads bytes from its standard input: the off of
\* its Reader is past 0 from then on.
StdinRead ==
    \E k \in 1..Len(pagers) :
        /\ pagers[k].cmd
        /\ ~pagers[k].stdinMoved
        /\ pagers' = [pagers EXCEPT ![k].stdinMoved = TRUE]
        /\ UNCHANGED <<text, pos, commands, pipes, minPager, maxPager, focusedPager,
                       err, edited, closed, rebuilt, dying, buf, bufferVars, viewVars,
                       sharedVars>>

NextPagers ==
    \/ KeyRune
    \/ KeyBackspace
    \/ KeyLeft
    \/ KeyRight
    \/ KeyNext
    \/ KeyPrev
    \/ StdinRead

(***************************************************************************)
(* SpecBuffer: an input is appended to a fresh Buffer in chunks            *)
(***************************************************************************)
RECURSIVE SeqsUpTo(_, _)
SeqsUpTo(S, n) ==
    IF n = 0
    THEN {<<>>}
    ELSE LET shorter == SeqsUpTo(S, n - 1)
         IN shorter \cup {Append(s, x) : s \in {t \in shorter : Len(t) = n - 1}, x \in S}

\* len and nlines are Len() and NLines() at the time of the call.
NoQuery ==
    [op |-> "none", arg |-> 0, n |-> 0, len |-> 0, nlines |-> 0, panics |-> FALSE,
     res |-> <<>>]

InitBufferIdle ==
    /\ input = <<>>
    /\ fed = 0
    /\ cuts = <<>>
    /\ query = NoQuery

InitBuffer ==
    /\ input \in SeqsUpTo(InputBytes, MaxInput)
    /\ fed = 0
    /\ cuts = <<>>
    /\ query = NoQuery
    /\ buf = NewBuffer

\* One Buffer.Append call with the next k bytes of the input.
AppendChunk ==
    \E k \in 1..(Len(input) - fed) :
        /\ buf' = BufferAppend(buf, Slice(input, fed, fed + k))
        /\ fed' = fed + k
        /\ cuts' = Append(cuts, k)
        /\ UNCHANGED <<input, query, sharedVars, pagerVars, viewVars>>

\* One Buffer.Line(n) call, n from one below the first line to one past the
\* last; Line has no failing path.
LineQuery ==
    \E n \in (-1)..BufferNLines(buf) :
        /\ query' = [op |-> "Line", arg |-> n, n |-> 0, len |-> BufferLen(buf),
                     nlines |-> BufferNLines(buf), panics |-> FALSE,
                     res |-> BufferLine(buf, n)]
        /\ UNCHANGED <<buf, input, fed, cuts, sharedVars, pagerVars, viewVars>>

\* One Buffer.ReadAt(p, off) call with len(p) = n, off from one below 0 to one
\* past the length.
ReadAtQuery ==
    \E at \in (-1)..(BufferLen(buf) + 1) :
        \E n \in 0..MaxP :
            /\ query' = [op |-> "ReadAt", arg |-> at, n |-> n, len |-> BufferLen(buf),
                         nlines |-> BufferNLines(buf),
                         panics |-> BufferReadAtPanics(buf, at),
                         res |-> IF BufferReadAtPanics(buf, at)
                                 THEN <<>>
                                 ELSE BufferReadAt(buf, n, at)]
            /\ UNCHANGED <<buf, input, fed, cuts, sharedVars, pagerVars, viewVars>>

NextBuffer == AppendChunk

\* One Buffer.Append call with the whole input.
AppendAll ==
    /\ fed = 0
    /\ Len(input) > 0
    /\ buf' = BufferAppend(buf, input)
    /\ fed' = Len(input)
    /\ cuts' = <<Len(input)>>
    /\ UNCHANGED <<input, query, sharedVars, pagerVars, viewVars>>

NextQueries ==
    \/ AppendAll
    \/ LineQuery
    \/ ReadAtQuery

(***************************************************************************)
(* streamview.Model: one view, its Buffer and its Reader                   *)
(*                                                                         *)
(* The stream is one line per byte. A readCmd is a tea.Cmd run on its own   *)
(* goroutine and its readMsg comes back through the event loop, so the      *)
(* commands issued and the messages sent are taken in any order.            *)
(***************************************************************************)
ViewHeight == 2
MaxViewLines == 3
MaxReads == 2

\* clamp(v, low, high)
clamp(v, low, high) ==
    IF high < low THEN Min(low, Max(high, v)) ELSE Min(high, Max(low, v))

\* Model.maxLine
maxLine(nl) == nl + ViewHeight - 1

\* Model.VisibleLineCount, with visibleLineRange and hasLines.
VisibleLineCount(nl, cur) ==
    IF nl = 0
    THEN 0
    ELSE LET top == Max(0, cur)
             bottom == clamp(maxLine(nl), top, nl - 1)
         IN bottom - top + 1

\* Model.shouldReadMore with lastErr = e.
shouldReadMore(nl, cur, e) ==
    IF VisibleLineCount(nl, cur) >= ViewHeight
    THEN FALSE
    ELSE IF e # "nil"
         THEN FALSE
         ELSE TRUE

\* Model.SetCurrentLine
SetCurrentLine(n, nl) == clamp(n, 0, maxLine(nl))

RemoveAt(s, i) == SubSeq(s, 1, i - 1) \o SubSeq(s, i + 1, Len(s))

InitViewIdle ==
    /\ lastErr = "nil"
    /\ readCmds = <<>>
    /\ readMsgs = <<>>
    /\ nLines = 0
    /\ CurrentLine = 0
    /\ readerOff = 0
    /\ arrived = 0
    /\ slept = FALSE

\* streamview.New, then Model.Init: the first readCmd is issued.
InitView ==
    /\ lastErr = "nil"
    /\ readCmds = <<"nil">>
    /\ readMsgs = <<>>
    /\ nLines = 0
    /\ CurrentLine = 0
    /\ readerOff = 0
    /\ arrived = 0
    /\ slept = FALSE
    /\ buf = NewBuffer

\* What m.reader.Read(buf) does with len(buf) = 4096: the bytes before r.off in
\* the Buffer, or one read of the underlying reader, whose bytes are appended
\* and whose r.off stays. The underlying reader hands out what has arrived,
\* with no error or with EOF, or nothing and EOF or another error.
ReaderReads ==
    IF readerOff < nLines
    THEN {[off |-> nLines, n |-> 0, err |-> "nil"]}
    ELSE {[off |-> readerOff, n |-> arrived, err |-> e] :
              e \in IF arrived > 0 THEN {"nil", "EOF"} ELSE {"EOF"}}
         \cup {[off |-> readerOff, n |-> 0, err |-> "ERR"]}

\* The func() tea.Msg of a readCmd runs: it sleeps 50 ms when the lastErr of
\* the Model it was made for is EOF, reads, and sends readMsg{err}.
RunReadCmd ==
    \E i \in 1..Len(readCmds) :
        \E r \in ReaderReads :
            /\ slept' = (slept \/ readCmds[i] = "EOF")
            /\ readCmds' = RemoveAt(readCmds, i)
            /\ readMsgs' = Append(readMsgs, r.err)
            /\ readerOff' = r.off
            /\ nLines' = nLines + r.n
            /\ arrived' = arrived - r.n
            /\ UNCHANGED <<lastErr, CurrentLine, buf, bufferVars, sharedVars, pagerVars>>

\* Model.Update with a readMsg of this view: m.lastErr = msg.err, and a new
\* readCmd if shouldReadMore.
HandleReadMsg ==
    \E i \in 1..Len(readMsgs) :
        /\ lastErr' = readMsgs[i]
        /\ readMsgs' = RemoveAt(readMsgs, i)
        /\ readCmds' = IF shouldReadMore(nLines, CurrentLine, readMsgs[i])
                       THEN Append(readCmds, readMsgs[i])
                       ELSE readCmds
        /\ UNCHANGED <<nLines, CurrentLine, readerOff, arrived, slept, buf, bufferVars,
                       sharedVars, pagerVars>>

\* Model.LineDown(1), the down key on the focused pager.
LineDown ==
    /\ Len(readCmds) + Len(readMsgs) < MaxReads
    /\ \E cur \in {SetCurrentLine(Min(CurrentLine + 1, nLines - 1), nLines)} :
           /\ CurrentLine' = cur
           /\ readCmds' = IF shouldReadMore(nLines, cur, lastErr)
                          THEN Append(readCmds, lastErr)
                          ELSE readCmds
    /\ UNCHANGED <<lastErr, readMsgs, nLines, readerOff, arrived, slept, buf, bufferVars,
                   sharedVars, pagerVars>>

\* Model.LineUp(1), the up key on the focused pager.
LineUp ==
    /\ CurrentLine' = SetCurrentLine(Max(0, CurrentLine - 1), nLines)
    /\ UNCHANGED <<lastErr, readCmds, readMsgs, nLines, readerOff, arrived, slept, buf,
                   bufferVars, sharedVars, pagerVars>>

\* The writer at the other end of the stream produces one more line.
LineArrives ==
    /\ nLines + arrived < MaxViewLines
    /\ arrived' = arrived + 1
    /\ UNCHANGED <<lastErr, readCmds, readMsgs, nLines, CurrentLine, readerOff, slept,
                   buf, bufferVars, sharedVars, pagerVars>>

NextView ==
    \/ RunReadCmd
    \/ HandleReadMsg
    \/ LineDown
    \/ LineUp
    \/ LineArrives

(***************************************************************************)
(* The two locks: Shared.mu and Buffer.mu                                  *)
(*                                                                         *)
(* Reader.Read and the Buffer methods once more, one step per Lock and per *)
(* Unlock. What a test on r.off and Len() finds and what the underlying    *)
(* reader returns is left open: both branches are taken. pc[c] is "idle",  *)
(* a w-label while c waits for Buffer.mu on entering the method named, an  *)
(* in-label while it holds Buffer.mu inside it, "wMu" while it waits for   *)
(* Shared.mu, "underlying" inside r.s.r.Read and "unlock" before the       *)
(* deferred Unlock.                                                        *)
(***************************************************************************)
WantsBuffer == {"wLen1", "wReadAt1", "wLen2", "wReadAt2", "wAppend", "wOp"}

InsideBuffer == {"inLen1", "inReadAt1", "inLen2", "inReadAt2", "inAppend", "inOp"}

\* The label inside the Buffer method that a cursor waits to enter.
Inside(l) ==
    CASE l = "wLen1" -> "inLen1"
      [] l = "wReadAt1" -> "inReadAt1"
      [] l = "wLen2" -> "inLen2"
      [] l = "wReadAt2" -> "inReadAt2"
      [] l = "wAppend" -> "inAppend"
      [] l = "wOp" -> "inOp"

\* Where Read, or the caller of a Buffer method, goes on after the method.
AfterBuffer(l) ==
    CASE l = "inLen1" -> {"wReadAt1", "wMu"}
      [] l = "inReadAt1" -> {"idle"}
      [] l = "inLen2" -> {"wReadAt2", "underlying"}
      [] l = "inReadAt2" -> {"unlock"}
      [] l = "inAppend" -> {"unlock"}
      [] l = "inOp" -> {"idle"}

\* r.Read(p) is called: its first statement calls r.s.buf.Len().
CallRead(c) ==
    /\ pc[c] = "idle"
    /\ pc' = [pc EXCEPT ![c] = "wLen1"]
    /\ UNCHANGED <<buf, mu, bmu, upos, off, plen, rd, rerr, rep, delivered, erred,
                   bufferVars, viewVars, pagerVars>>

\* Append, Len, ReadAt, NLines or Line is called from outside Read, as a view
\* does on its Buffer.
CallBuffer(c) ==
    /\ pc[c] = "idle"
    /\ pc' = [pc EXCEPT ![c] = "wOp"]
    /\ UNCHANGED <<buf, mu, bmu, upos, off, plen, rd, rerr, rep, delivered, erred,
                   bufferVars, viewVars, pagerVars>>

\* b.mu.Lock() at the top of a Buffer method.
BufferLock(c) ==
    /\ pc[c] \in WantsBuffer
    /\ bmu = 0
    /\ bmu' = c
    /\ pc' = [pc EXCEPT ![c] = Inside(pc[c])]
    /\ UNCHANGED <<buf, mu, upos, off, plen, rd, rerr, rep, delivered, erred,
                   bufferVars, viewVars, pagerVars>>

\* The deferred b.mu.Unlock() of a Buffer method, and what the caller does next.
BufferUnlock(c) ==
    /\ pc[c] \in InsideBuffer
    /\ bmu' = 0
    /\ \E l \in AfterBuffer(pc[c]) : pc' = [pc EXCEPT ![c] = l]
    /\ UNCHANGED <<buf, mu, upos, off, plen, rd, rerr, rep, delivered, erred,
                   bufferVars, viewVars, pagerVars>>

\* r.s.mu.Lock()
SharedLock(c) ==
    /\ pc[c] = "wMu"
    /\ mu = 0
    /\ mu' = c
    /\ pc' = [pc EXCEPT ![c] = "wLen2"]
    /\ UNCHANGED <<buf, bmu, upos, off, plen, rd, rerr, rep, delivered, erred,
                   bufferVars, viewVars, pagerVars>>

\* r.s.r.Read(p) returns, with bytes to append or without.
UnderlyingReturns(c) ==
    /\ pc[c] = "underlying"
    /\ \E l \in {"wAppend", "unlock"} : pc' = [pc EXCEPT ![c] = l]
    /\ UNCHANGED <<buf, mu, bmu, upos, off, plen, rd, rerr, rep, delivered, erred,
                   bufferVars, viewVars, pagerVars>>

\* A return of Read that leaves Shared.mu locked.
SharedUnlockForgotten(c) ==
    /\ pc[c] = "unlock"
    /\ pc' = [pc EXCEPT ![c] = "idle"]
    /\ UNCHANGED <<buf, mu, bmu, upos, off, plen, rd, rerr, rep, delivered, erred,
                   bufferVars, viewVars, pagerVars>>

\* defer r.s.mu.Unlock(), on every return after the Lock.
SharedUnlock(c) ==
    /\ pc[c] = "unlock"
    /\ mu' = 0
    /\ pc' = [pc EXCEPT ![c] = "idle"]
    /\ UNCHANGED <<buf, bmu, upos, off, plen, rd, rerr, rep, delivered, erred,
                   bufferVars, viewVars, pagerVars>>

NextLocks ==
    \/ \E c \in Cursors : CallRead(c)
    \/ \E c \in Cursors : CallBuffer(c)
    \/ \E c \in Cursors : BufferLock(c)
    \/ \E c \in Cursors : BufferUnlock(c)
    \/ \E c \in Cursors : SharedLock(c)
    \/ \E c \in Cursors : UnderlyingReturns(c)
    \/ \E c \in Cursors : SharedUnlock(c)

(***************************************************************************)
(* Specifications                                                          *)
(***************************************************************************)
vars == <<buf, bufferVars, sharedVars, pagerVars, viewVars>>

\* A Buffer alone; the Shared and the pagers stay idle.
BufferInit == InitBuffer /\ InitSharedIdle /\ InitPagersIdle /\ InitViewIdle

SpecBuffer == BufferInit /\ [][NextBuffer]_vars

\* A Buffer, empty or holding an input, on which Line and ReadAt are called.
SpecQueries == BufferInit /\ [][NextQueries]_vars

\* One Shared and its Readers.
SharedInit == InitShared /\ InitBufferIdle /\ InitPagersIdle /\ InitViewIdle

SpecShared == SharedInit /\ [][NextShared]_vars

\* The same, every Reader being read again and again: once Read is called it
\* makes its first test, and a buffered read is carried out. Nothing is assumed
\* of the lock or of the underlying reader.
SpecSharedReading ==
    /\ SharedInit
    /\ [][NextShared]_vars
    /\ \A c \in Cursors : WF_vars(Check1(c)) /\ WF_vars(ReadAt1(c))

\* Goroutines in Read and in the Buffer methods, lock by lock. A goroutine
\* that can run takes its step; a sync.Mutex hands the lock to a waiter that
\* keeps waiting (starvation mode); the underlying read in progress returns.
SpecLocks ==
    /\ SharedInit
    /\ [][NextLocks]_vars
    /\ \A c \in Cursors :
           /\ SF_vars(BufferLock(c))
           /\ SF_vars(SharedLock(c))
           /\ WF_vars(BufferUnlock(c))
           /\ WF_vars(UnderlyingReturns(c))
           /\ WF_vars(SharedUnlock(c))

\* The model of pex.go after newModel.
PagersInit == InitPagers /\ InitBufferIdle /\ InitSharedIdle /\ InitViewIdle

SpecPagers == PagersInit /\ [][NextPagers]_vars

\* One view on a stream that lines keep reaching. The runtime runs every
\* command it is given and the event loop delivers every message.
ViewInit == InitView /\ InitBufferIdle /\ InitSharedIdle /\ InitPagersIdle

SpecView ==
    /\ ViewInit
    /\ [][NextView]_vars
    /\ WF_vars(RunReadCmd)
    /\ WF_vars(HandleReadMsg)

(***************************************************************************)
(* SpecPipeline: the user types the pipeline a|a|a|... at the end of the   *)
(* text, deletes with backspace, and moves the cursor with tab, shift+tab, *)
(* home and end.                                                           *)
(***************************************************************************)
\* Update with the next character of the pipeline typed at the end of the text.
KeyTyped ==
    /\ Len(text) < MaxLine
    /\ pos = Len(text)
    /\ \E ch \in {IF Len(text) % 2 = 0 THEN "a" ELSE "|"} :
           afterInput(Append(text, ch), pos + 1)

\* Update with home: the text input puts the cursor at the start.
KeyHome ==
    \E p \in {SetCursor(0)} : afterInput(text, p)

\* Update with end: the text input puts the cursor after the last character.
KeyEnd ==
    \E p \in {SetCursor(Len(text))} : afterInput(text, p)

\* The subprocess of a stage terminates by itself.
ProcessExits ==
    \E k \in 1..Len(pagers) :
        /\ pagers[k].cmd
        /\ ~pagers[k].exited
        /\ pagers' = [pagers EXCEPT ![k].exited = TRUE]
        /\ UNCHANGED <<text, pos, commands, pipes, minPager, maxPager, focusedPager,
                       err, edited, closed, rebuilt, dying, buf, bufferVars, viewVars,
                       sharedVars>>

\* A subprocess that close() cancelled is killed and terminates.
ProcessTerminates ==
    \E i \in dying :
        /\ dying' = dying \ {i}
        /\ UNCHANGED <<text, pos, commands, pipes, pagers, minPager, maxPager,
                       focusedPager, err, edited, closed, rebuilt, buf, bufferVars, viewVars,
                       sharedVars>>

NextPipeline ==
    \/ KeyTyped
    \/ KeyBackspace
    \/ KeyHome
    \/ KeyEnd
    \/ KeyNext
    \/ KeyPrev
    \/ ProcessExits
    \/ ProcessTerminates

SpecPipeline == PagersInit /\ [][NextPipeline]_vars

(***************************************************************************)
(* C1: what a cursor's successive Reads return, put end to end, is a       *)
(* prefix of what the underlying reader produced: each byte reaches the    *)
(* cursor once, in stream order, none repeated or skipped.                 *)
(***************************************************************************)
IsPrefix(s, t) == Len(s) <= Len(t) /\ s = SubSeq(t, 1, Len(s))

C1_CursorSeesStreamPrefix ==
    \A c \in Cursors : IsPrefix(delivered[c], StreamData)

(***************************************************************************)
(* C2: however the input is split into Append calls, Len, NLines and every *)
(* Line(n) are those of a Buffer given the same bytes in a single Append.  *)
(***************************************************************************)
OneShot(s) == BufferAppend(NewBuffer, s)

C2_ChunkingIndependent ==
    LET one == OneShot(Slice(input, 0, fed))
    IN /\ BufferLen(buf) = BufferLen(one)
       /\ BufferNLines(buf) = BufferNLines(one)
       /\ \A n \in 0..BufferNLines(one) : BufferLine(buf, n) = BufferLine(one, n)

\* Three Append calls, the first ending in a CR and the second being its LF.
C2_Witness ==
    /\ input = <<LetterH, CR, LF, LetterH>>
    /\ cuts = <<2, 1, 1>>
    /\ BufferNLines(buf) = 2
    /\ BufferLine(buf, 0) = <<LetterH>>

(***************************************************************************)
(* C5: whenever Shared.mu is free, and already when the Read that fetched  *)
(* is about to return, the buffer holds exactly the bytes the underlying   *)
(* reader has returned so far, each once and in stream order.              *)
(***************************************************************************)
C5_BufferIsWhatWasFetched ==
    (mu = 0 \/ pc[mu] = "ret") => buf.buf = Fetched

\* Both bytes are buffered and the lock is free; cursor 1 got the first byte from
\* the buffer (its off moved) and fetched the second, so cursor 2 fetched the first.
C5_Witness ==
    /\ mu = 0
    /\ buf.buf = <<StreamByte(1), StreamByte(2)>>
    /\ delivered[1] = <<StreamByte(1), StreamByte(2)>>
    /\ off[1] = 1
    /\ delivered[2] = <<StreamByte(1)>>
    /\ off[2] = 0

(***************************************************************************)
(* C6: at most one read of the underlying reader is under way at any time, *)
(* and the cursor making it holds Shared.mu.                               *)
(***************************************************************************)
C6_SingleFlight ==
    /\ Cardinality({c \in Cursors : pc[c] = "uread"}) <= 1
    /\ \A c \in Cursors : pc[c] = "uread" => mu = c

\* One cursor is reading the underlying reader while the other waits for the lock.
C6_Witness ==
    /\ pc[1] = "uread"
    /\ pc[2] = "lock"

(***************************************************************************)
(* C7: a cursor reads the underlying reader only when the buffer holds no  *)
(* byte at or beyond its offset: having taken the lock it looks again and  *)
(* is served from the buffer if another cursor fetched in the meantime.    *)
(***************************************************************************)
C7_NoReadWhileBuffered ==
    \A c \in Cursors : pc[c] = "uread" => ~(off[c] < BufferLen(buf))

\* A cursor that found nothing buffered, waited for the lock, and is now served
\* from what the other cursor fetched meanwhile.
C7_Witness ==
    /\ pc[2] = "readat2"
    /\ off[2] = 0
    /\ BufferLen(buf) > 0

(***************************************************************************)
(* C8: errors of the underlying reader are not kept. A Read that went to   *)
(* the underlying reader returns the very n and err that reader reported   *)
(* to it; a Read that finds its offset at the end of the buffer once it    *)
(* has the lock makes its own underlying read; a Read served from the      *)
(* buffer returns at least one byte and no error.                          *)
(***************************************************************************)
C8_ReturnsOwnReport ==
    \A c \in Cursors :
        pc[c] = "ret" => /\ rep[c] # NoReport
                         /\ Len(rd[c]) = rep[c].n
                         /\ rerr[c] = rep[c].err

C8_Step ==
    \A c \in Cursors :
        /\ (pc[c] = "check2" /\ ~(off[c] < BufferLen(buf)) /\ pc'[c] # pc[c])
               => pc'[c] = "uread"
        /\ (pc[c] = "uread" /\ pc'[c] # pc[c])
               => rep'[c] \in StreamReports(plen[c])
        /\ (pc[c] \in {"readat1", "readat2"} /\ pc'[c] = "idle")
               => /\ erred' = erred
                  /\ Len(delivered'[c]) > Len(delivered[c])

C8_ErrorsNotCached == []C8_ReturnsOwnReport /\ [][C8_Step]_vars

\* After some Read returned an error, a Read is about to return bytes it got
\* from the underlying reader.
C8_Witness ==
    /\ erred
    /\ \E c \in Cursors : pc[c] = "ret" /\ Len(rd[c]) > 0 /\ rerr[c] = "nil"

(***************************************************************************)
(* The pipeline controller: what an edit does to the stages                *)
(***************************************************************************)
\* A step in which updatePagers ran.
EditStep == edited' /\ (text' # text \/ pos' # pos)

\* Two records of one pager that differ at most in whether it has the focus.
SamePager(p, q) == [p EXCEPT !.focused = FALSE] = [q EXCEPT !.focused = FALSE]

\* The command of the stage an edit finds at index i: that of the stage there,
\* or of the empty placeholder appended there.
ExistingCommand(i) == IF i < Len(pagers) THEN pagers[i + 1].command ELSE <<>>

\* The indexes at which the existing stage's argument vector is not the accepted one.
Diverging == {i \in 1..Len(commands') : ExistingCommand(i) # commands'[i]}

\* The diverge index d, or the stage count when nothing diverges.
DivergeIndex ==
    IF Diverging = {}
    THEN Len(commands') + 1
    ELSE CHOOSE i \in Diverging : \A h \in Diverging : i <= h

C3_Step ==
    EditStep =>
        \A d \in {DivergeIndex} :
            /\ Len(pagers') = Len(commands') + 1
            /\ \A i \in 0..(d - 1) :
                   /\ i \notin closed'
                   /\ i \notin rebuilt'
                   /\ i < Len(pagers) => SamePager(pagers[i + 1], pagers'[i + 1])
            /\ \A i \in d..Len(commands') :
                   i \in closed' /\ i \in rebuilt'
            /\ closed' = d..(Max(Len(pagers), Len(commands') + 1) - 1)

\* C3: on every edit, with d the first index i >= 1 whose existing stage's
\* argument vector differs from commands[i-1], the stages below d (stage 0
\* among them) are neither cancelled nor replaced, and every stage from d on is
\* cancelled and replaced by a newly built one; when there is no d, only the
\* excess trailing stages are cancelled and nothing is launched.
C3_RebuildFromDivergeIndex == [][C3_Step]_vars

\* An edit that kept the running stage 1 and rebuilt stage 2 with a subprocess.
C3_Witness ==
    /\ edited
    /\ Len(pagers) = 3
    /\ pagers[2].cmd
    /\ pagers[3].cmd
    /\ rebuilt = {2}
    /\ closed = {2}

C4_Wired == \A k \in 2..Len(pagers) : pagers[k].cmd => pagers[k].stdin = "live"

C4_Step ==
    EditStep =>
        \A i \in rebuilt' :
            (i < Len(pagers') /\ pagers'[i + 1].cmd) => ~pagers'[i + 1].stdinMoved

\* C4: every stage at index i >= 1 that has a subprocess reads its standard
\* input through a cursor on the Shared of the stage now at index i-1, never on
\* that of a replaced or removed stage, also when adjacent stages are rebuilt
\* in one edit; the cursor of a stage an edit has just built is at offset 0.
C4_StdinFollowsPrecedingStage == []C4_Wired /\ [][C4_Step]_vars

\* One edit rebuilt the adjacent stages 1 and 2, both with a subprocess.
C4_Witness ==
    /\ edited
    /\ {1, 2} \subseteq rebuilt
    /\ Len(pagers) = 3
    /\ pagers[2].cmd
    /\ pagers[3].cmd
    /\ pagers[3].stdin = "live"

C9_Step ==
    (EditStep /\ err' = "parse") =>
        /\ Len(pagers') = Len(pagers)
        /\ \A k \in 1..Len(pagers) : SamePager(pagers[k], pagers'[k])
        /\ closed' = {}
        /\ rebuilt' = {}
        /\ commands' = commands
        /\ pipes' = pipes

\* C9: an edit whose text fails to parse leaves the stage list as it was (its
\* length and every stage, nothing cancelled or launched) and keeps the
\* accepted commands and pipes, the first edit after start-up included.
C9_FailedParseKeepsStages == [][C9_Step]_vars

C10_Count == edited => Len(pagers) = Len(commands) + 1

C10_Step ==
    (EditStep /\ Len(pagers') = Len(commands') + 1) =>
        /\ \A i \in (Len(commands') + 1)..(Len(pagers) - 1) : i \in closed'
        /\ \A i \in Len(pagers)..Len(commands') :
               i \notin rebuilt' => SamePager(pagers'[i + 1], newEmptyPager)

\* C10: after every edit there are len(commands) + 1 stages, commands being the
\* list last accepted: the missing stages were appended as empty placeholders,
\* the excess trailing stages were cancelled and dropped.
C10_StageCount == []C10_Count /\ [][C10_Step]_vars

\* An edit that accepted a shorter command list and dropped the excess stage.
C10_Witness ==
    /\ edited
    /\ err = "nil"
    /\ Len(commands) >= 1
    /\ Len(pagers) = Len(commands) + 1
    /\ rebuilt = {}
    /\ closed = {Len(pagers)}

(***************************************************************************)
(* The pipeline controller: the shape of the stage list                    *)
(***************************************************************************)
\* A stage with an empty command and no subprocess.
IsPlaceholder(p) == p.command = <<>> /\ ~p.cmd /\ ~p.isErr /\ p.src = "empty"

\* The accepted commands that are not the empty command of an unclosed pipe.
TypedCommands == {i \in 1..Len(commands) : commands[i] # <<>>}

\* C11 as stated: with N accepted commands there are N + 2 stages, the input,
\* one stage per command, and after them a placeholder. N counts the commands
\* the user has typed; counting the empty command of an unclosed pipe as well
\* asks for one stage more still.
C11_AlwaysTrailingPlaceholder ==
    LET N == Cardinality(TypedCommands)
    IN /\ Len(pagers) = N + 2
       /\ pagers[1].src = "input"
       /\ \A i \in 1..N : pagers[i + 1].command = commands[i]
       /\ IsPlaceholder(pagers[N + 2])

\* C11, amended: stage 0 is the original input; before the first edit one
\* placeholder follows it; after an edit there are len(commands) + 1 stages,
\* stage i holding commands[i-1], a placeholder wherever that command is empty:
\* a trailing placeholder is there exactly when the accepted text ends in an
\* unclosed pipe.
C11_StageListShape ==
    /\ Len(pagers) >= 1
    /\ pagers[1].src = "input"
    /\ ~pagers[1].cmd
    /\ ~edited => Len(pagers) = 2 /\ IsPlaceholder(pagers[2])
    /\ edited =>
           /\ Len(pagers) = Len(commands) + 1
           /\ \A i \in 1..Len(commands) :
                  /\ pagers[i + 1].command = commands[i]
                  /\ commands[i] = <<>> <=> IsPlaceholder(pagers[i + 1])
                  /\ commands[i] # <<>> => pagers[i + 1].src \in {"output", "error"}

\* Two commands accepted, both typed, no placeholder after them.
C11_Witness ==
    /\ edited
    /\ err = "nil"
    /\ Len(commands) = 2
    /\ Len(pagers) = 3
    /\ pagers[2].cmd
    /\ pagers[3].cmd

(***************************************************************************)
(* The pipeline controller: the focus and the visible window               *)
(***************************************************************************)
\* C12: in every reachable state minPager <= focusedPager <= maxPager and
\* maxPager - minPager < maxPagers: the window holds the focused stage and
\* spans at most maxPagers stages, whatever edits and cursor moves came before.
C12_WindowHoldsFocus ==
    /\ minPager <= focusedPager
    /\ focusedPager <= maxPager
    /\ maxPager - minPager < maxPagers

\* The window has left stage 0 behind and then followed an edit that shrank
\* the pipeline below its old right edge.
C12_Witness ==
    /\ edited
    /\ minPager = 1
    /\ maxPager = 1
    /\ focusedPager = 1
    /\ Len(pagers) = 2

\* C13: after every edit 0 <= minPager <= maxPager <= len(pagers) - 1, so the
\* window names only stages that exist. It is stated here for the states whose
\* focus is itself a stage, where the window's right edge owes nothing to the
\* focus.
C13_WindowWithinStages ==
    (edited /\ focusedPager <= Len(pagers) - 1) =>
        /\ 0 <= minPager
        /\ minPager <= maxPager
        /\ maxPager <= Len(pagers) - 1

\* C14: after every edit or cursor move focusedPager is an index of m.pagers,
\* 0 <= focusedPager <= len(pagers) - 1, for every text and cursor position,
\* whether or not the text was accepted.
C14_FocusIsAStage ==
    edited => 0 <= focusedPager /\ focusedPager <= Len(pagers) - 1

\* The window before an edit with its right edge clamped to the stages the
\* edit leaves.
ClampedMax == Min(maxPager, Len(pagers') - 1)

C15_Step ==
    EditStep =>
        \A f \in {focusedPager'} :
        \A c \in {ClampedMax} :
            /\ f > c => minPager' = Max(0, f - maxPagers + 1) /\ maxPager' = f
            /\ (f <= c /\ f < minPager) =>
                   /\ minPager' = f
                   /\ maxPager' >= f
                   /\ maxPager' - minPager' < maxPagers
            /\ (minPager <= f /\ f <= c) => minPager' = minPager
            /\ (Len(pagers') = 5 /\ focusedPager = 0 /\ f = 4) =>
                   minPager' = 2 /\ maxPager' = 4
            /\ (Len(pagers') = 5 /\ focusedPager = 4 /\ minPager = 2 /\ f = 0) =>
                   minPager' = 0 /\ maxPager' = 2

\* C15: the window moves only as far as the focus f needs: right of the
\* clamped window it becomes [max(0, f - maxPagers + 1), f]; left of it
\* minPager becomes f and the window reaches at most maxPagers stages to the
\* right; inside it minPager stays. With 5 stages the focus going from 0 to 4
\* gives [2,4] and going back to 0 gives [0,2].
C15_WindowMovesAsNeeded == [][C15_Step]_vars

\* Five stages, the focus back on stage 0 after it was on stage 4.
C15_Witness ==
    /\ Len(pagers) = 5
    /\ focusedPager = 0
    /\ minPager = 0
    /\ maxPager = 2

(***************************************************************************)
(* The line index against the bytes of the buffer                          *)
(***************************************************************************)
\* The lines of a byte string: the bytes before each LF, then the bytes after
\* the last LF when there are any.
RECURSIVE SplitLines(_)
SplitLines(s) ==
    IF Len(s) = 0
    THEN <<>>
    ELSE LET i == IndexByte(s, LF)
         IN IF i < 0
            THEN <<s>>
            ELSE <<SubSeq(s, 1, i)>> \o SplitLines(SubSeq(s, i + 2, Len(s)))

\* A line without the carriage return at its end, if it has one there.
StripTrailingCR(l) ==
    IF Len(l) > 0 /\ l[Len(l)] = CR THEN SubSeq(l, 1, Len(l) - 1) ELSE l

\* C16: for every n < NLines(), Line(n) is the n-th line of the buffer without
\* its LF and without a carriage return at its end; every other byte, a
\* carriage return inside the line too, is returned as it is.
C16_LineStripsTrailingCROnly ==
    \A n \in 0..(BufferNLines(buf) - 1) :
        /\ n < Len(SplitLines(buf.buf))
        /\ BufferLine(buf, n) = StripTrailingCR(SplitLines(buf.buf)[n + 1])

\* The number of LF bytes of a byte string.
CountLF(s) == Cardinality({k \in 1..Len(s) : s[k] = LF})

\* C17: NLines() is the number of LF bytes in the buffer, plus one when the
\* buffer is not empty and does not end in LF: CR LF and a lone LF make one
\* entry each, a final unterminated fragment one more.
C17_NLinesCountsTerminators ==
    BufferNLines(buf) =
        CountLF(buf.buf) +
            (IF Len(buf.buf) > 0 /\ buf.buf[Len(buf.buf)] # LF THEN 1 ELSE 0)

\* CR LF, a lone LF and an unterminated fragment, appended in more than one call.
C17_Witness ==
    /\ buf.buf = <<CR, LF, LF, LetterH>>
    /\ Len(cuts) >= 2
    /\ BufferNLines(buf) = 3

(***************************************************************************)
(* Reader.Read: the reads served from the buffer                           *)
(***************************************************************************)
\* A cursor with bytes of the buffer still before it can take its next step
\* whoever holds Shared.mu: its check, and then its ReadAt, wait for nothing.
C18_BufferedReadEnabled ==
    \A c \in Cursors :
        /\ (pc[c] = "idle" /\ off[c] < BufferLen(buf)) => ENABLED Check1(c)
        /\ pc[c] = "readat1" => ENABLED ReadAt1(c)

\* Such a cursor goes from its check to ReadAt and from there to its return;
\* it never holds Shared.mu and never changes who does.
C18_Step ==
    \A c \in Cursors :
        /\ (pc[c] = "idle" /\ off[c] < BufferLen(buf) /\ pc'[c] # "idle") =>
               pc'[c] = "readat1" /\ mu' = mu
        /\ (pc[c] = "readat1" /\ pc'[c] # "readat1") =>
               pc'[c] = "idle" /\ mu # c /\ mu' = mu

C19_ErrorStage ==
    \A k \in 1..Len(pagers) :
        pagers[k].isErr =>
            /\ pagers[k].src = "error"
            /\ k >= 2
            /\ k - 1 <= Len(commands)
            /\ pagers[k].command = commands[k - 1]
            /\ pagers[k].command # <<>>
            /\ ~pagers[k].cmd
            /\ ~pagers[k].cancel
            /\ pagers[k].stdin = "none"

\* An edit in which a launch fails still ends with one stage per command, and
\* the stages after the failed one are built in the same edit.
C19_Step ==
    EditStep =>
        \A i \in rebuilt' :
            (i < Len(pagers') /\ pagers'[i + 1].isErr) =>
                /\ Len(pagers') = Len(commands') + 1
                /\ \A h \in (i + 1)..Len(commands') :
                       /\ h \in rebuilt'
                       /\ pagers'[h + 1].command = commands'[h]
                       /\ commands'[h] # <<>> =>
                              pagers'[h + 1].cmd \/ pagers'[h + 1].isErr

\* C19: when the launch of a stage's subprocess fails the edit completes: the
\* stage put at that index has the error message as its whole content, is
\* marked as an error stage, keeps its command, has no process and no cancel
\* handle; the later stages of the edit are built all the same.
C19_FailedLaunchGivesErrorStage == []C19_ErrorStage /\ [][C19_Step]_vars

\* One edit built stage 1, whose launch failed, and stage 2, which runs.
C19_Witness ==
    /\ edited
    /\ Len(pagers) = 3
    /\ {1, 2} \subseteq rebuilt
    /\ pagers[2].isErr
    /\ pagers[3].cmd

(***************************************************************************)
(* Cancelling a stage                                                      *)
(***************************************************************************)
\* The slots an edit calls close on hold every kind of stage; whatever is
\* there, the edit ends with one stage per command and the placeholder, and
\* exactly the subprocesses that were running when it cancelled them are still
\* to terminate: close came back without waiting for them. Closing an exited
\* subprocess, an error stage or a placeholder leaves nothing behind.
C20_Step ==
    EditStep =>
        /\ Len(pagers') = Len(commands') + 1
        /\ dying' \subseteq closed'
        /\ \A i \in closed' :
               i \in dying' <=>
                   (i < Len(pagers) /\ pagers[i + 1].cmd /\ ~pagers[i + 1].exited)

C21_Leaving ==
    {i \in 1..(Len(pagers) - 1) :
        \/ i >= Len(pagers')
        \/ i \in rebuilt'
        \/ ~SamePager(pagers'[i + 1], pagers[i + 1])}

\* An edit calls close on every pager it takes out of the list, which cancels
\* its subprocess if it runs; the input pager stays; a subprocess it launches
\* reads the Shared of the pager now before it through a Reader of its own, at
\* offset 0, never through the Reader of the pager it replaces.
C21_Step ==
    EditStep =>
        /\ \A i \in C21_Leaving :
               /\ i \in closed'
               /\ (pagers[i + 1].cancel /\ ~pagers[i + 1].exited) => i \in dying'
        /\ Len(pagers) > 0 => SamePager(pagers'[1], pagers[1])
        /\ \A i \in rebuilt' :
               pagers'[i + 1].cmd =>
                   /\ pagers'[i + 1].stdin = "live"
                   /\ ~pagers'[i + 1].stdinMoved

\* In every state each subprocess in the list reads the pager before it, so a
\* Shared has the one consumer in the next slot.
C21_OneConsumer ==
    \A k \in 1..Len(pagers) :
        /\ pagers[k].cmd => (k > 1 /\ pagers[k].stdin = "live" /\ pagers[k].cancel)
        /\ ~pagers[k].cmd => pagers[k].stdin = "none"

\* C21: a Shared has at most one subprocess that is not cancelled reading it:
\* the one of the stage after it. Every stage that is dropped or replaced is
\* closed by the edit that takes it out, and the stage put in its place reads
\* through a new cursor.
C21_SingleLiveConsumer == []C21_OneConsumer /\ [][C21_Step]_vars

\* One edit dropped a trailing stage and replaced an earlier one, cancelling
\* the running subprocesses of both.
C21_Witness ==
    /\ edited
    /\ rebuilt # {}
    /\ closed \ rebuilt # {}
    /\ \E i \in rebuilt : i \in dying /\ pagers[i + 1].cmd
    /\ \E i \in closed \ rebuilt : i \in dying

(***************************************************************************)
(* The Buffer only grows                                                   *)
(***************************************************************************)
\* Whether entry n of the line index of b ends on a LF of b.buf.
C22_Terminated(b, n) ==
    /\ b.lines[n + 1][3] < Len(b.buf)
    /\ b.buf[b.lines[n + 1][3] + 1] = LF

\* One Append: the old bytes are a prefix of the new ones, the line count does
\* not go down, and every line that ended on a LF reads as before.
C22_Step ==
    /\ BufferLen(buf') >= BufferLen(buf)
    /\ Slice(buf'.buf, 0, BufferLen(buf)) = buf.buf
    /\ \A at \in 0..BufferLen(buf) :
           IsPrefix(BufferReadAt(buf, MaxInput, at), BufferReadAt(buf', MaxInput, at))
    /\ BufferNLines(buf') >= BufferNLines(buf)
    /\ \A n \in 0..(BufferNLines(buf) - 1) :
           C22_Terminated(buf, n) =>
               /\ BufferLine(buf', n) = BufferLine(buf, n)
               /\ C22_Terminated(buf', n)
    /\ \A n \in 0..(BufferNLines(buf) - 2) : C22_Terminated(buf, n)

\* C22: the Buffer is append-only over any sequence of Append calls: Len and
\* NLines never decrease, a byte below Len never changes, and a line that a
\* LF has terminated never changes; only the last, unterminated entry may.
C22_AppendOnly == [][C22_Step]_vars

\* A second Append has lengthened the unterminated last line behind a line
\* that the first Append had already terminated.
C22_Witness ==
    /\ Len(cuts) = 2
    /\ cuts[1] = 3
    /\ Len(input) = 4
    /\ fed = 4
    /\ input[2] = LF
    /\ input[3] = LetterH
    /\ input[4] = LetterH
    /\ BufferNLines(buf) = 2
    /\ BufferLine(buf, 1) = <<LetterH, LetterH>>

(***************************************************************************)
(* A Reader behind the Buffer                                              *)
(***************************************************************************)
\* A Read about to copy from the Buffer has bytes before it.
C23_BufferedReadHasBytes ==
    \A c \in Cursors : pc[c] \in {"readat1", "readat2"} => off[c] < BufferLen(buf)

\* A Read called with r.off below the buffer length goes to the buffered copy,
\* and the copy made without the lock returns at least one byte, moves r.off by
\* what it returns and reads nothing from the underlying reader.
C23_Step ==
    \A c \in Cursors :
        /\ (pc[c] = "idle" /\ pc'[c] # "idle" /\ off[c] < BufferLen(buf)) =>
               pc'[c] = "readat1"
        /\ (pc[c] = "readat1" /\ pc'[c] = "idle") =>
               /\ off'[c] > off[c]
               /\ off'[c] <= BufferLen(buf)
               /\ Len(delivered'[c]) = Len(delivered[c]) + (off'[c] - off[c])
               /\ upos' = upos
               /\ mu' = mu

\* A Reader between two reads and behind the length L of the Buffer gets to L.
C23_CatchesUp ==
    \A c \in Cursors :
        \A L \in 1..MaxStream :
            (pc[c] = "idle" /\ off[c] < L /\ L <= BufferLen(buf)) ~> (off[c] >= L)

\* C23: a cursor behind the buffer length that keeps reading with a non-empty
\* destination gets at least one byte from each read and moves on, so that it
\* reaches the length it was behind, with no read of the underlying stream and
\* whatever the other cursors do.
C23_LaggingCursorCatchesUp ==
    /\ []C23_BufferedReadHasBytes
    /\ [][C23_Step]_vars
    /\ C23_CatchesUp

\* A cursor has caught up with the whole stream from the buffer while another
\* one holds the lock in a read of the underlying reader.
C23_Witness ==
    \E c \in Cursors :
        /\ pc[c] = "idle"
        /\ off[c] = MaxStream
        /\ BufferLen(buf) = MaxStream
        /\ \E d \in Cursors \ {c} : pc[d] = "uread" /\ mu = d

(***************************************************************************)
(* Queries outside the Buffer                                              *)
(***************************************************************************)
\* C24: invalid line and offset queries return an empty or zero result and
\* never fail: Line(n) with n < 0 or n >= NLines() is the empty string, ReadAt
\* at an offset within [0, Len()] returns the bytes copied and no error, and
\* ReadAt at an offset outside [0, Len()] returns zero bytes.
C24_QueriesNeverFail ==
    /\ query.op = "Line" =>
           /\ ~query.panics
           /\ (query.arg < 0 \/ query.arg >= query.nlines) => query.res = <<>>
    /\ query.op = "ReadAt" =>
           /\ ~query.panics
           /\ (0 <= query.arg /\ query.arg <= query.len) =>
                  Len(query.res) = Min(query.n, query.len - query.arg)
           /\ (query.arg < 0 \/ query.arg > query.len) => query.res = <<>>


(***************************************************************************)
(* Reader.off                                                              *)
(***************************************************************************)
\* No Reader is past the end of the Buffer of its Shared.
C25_OffWithinBuffer ==
    \A c \in Cursors : 0 <= off[c] /\ off[c] <= BufferLen(buf)

\* r.off moves forward only, and only in the return of a buffered copy made by
\* a Read of the same Reader; that step leaves every other Reader's off alone.
C25_Step ==
    \A c \in Cursors :
        /\ off'[c] >= off[c]
        /\ off'[c] # off[c] =>
               /\ pc[c] \in {"readat1", "readat2"}
               /\ pc'[c] = "idle"
               /\ \A d \in Cursors \ {c} : off'[d] = off[d] /\ pc'[d] = pc[d]

\* C25: the offset of a cursor never decreases, never exceeds the buffer length
\* of its Shared, and changes only through that cursor's own reads, which
\* leave the offset of every other cursor unchanged.
C25_OffsetPrivateAndMonotone == []C25_OffWithinBuffer /\ [][C25_Step]_vars

\* Two cursors of one Shared stand at different offsets past 0.
C25_Witness ==
    \E c, d \in Cursors :
        /\ off[c] = BufferLen(buf)
        /\ 0 < off[d]
        /\ off[d] < off[c]


(***************************************************************************)
(* Which stage has the focus                                               *)
(***************************************************************************)
\* The pipe offsets of the last accepted parse, none before the first one,
\* with the implicit offset 0 prepended.
C26_RetainedOffsets == <<0>> \o (IF pipes = <<>> THEN <<>> ELSE Tail(pipes))

\* C26: after every edit or cursor move the focused index is the number of
\* retained pipe offsets, the implicit 0 included, that are strictly smaller
\* than the cursor's offset: offset 0 focuses stage 0, and a cursor on a pipe
\* focuses the stage before that pipe.
C26_FocusCountsOffsetsBefore ==
    edited =>
        focusedPager =
            Cardinality({k \in 1..Len(C26_RetainedOffsets) : C26_RetainedOffsets[k] < pos})


(***************************************************************************)
(* The command a stage stands for                                          *)
(***************************************************************************)
\* C27: after every edit the command recorded on stage i, 1 <= i <=
\* len(stages) - 1, is argument-vector-equal to commands[i-1] of the command
\* list last accepted, error stages and placeholders for an empty command
\* included.
C27_StagesCarryCommands ==
    edited =>
        /\ Len(pagers) - 1 <= Len(commands)
        /\ \A i \in 1..(Len(pagers) - 1) :
               /\ CommandEqual(pagers[i + 1].command, commands[i])
               /\ pagers[i + 1].src = "empty" => CommandEmpty(commands[i])

\* After an edit stage 1 is an error stage and stage 2 the placeholder of the
\* empty command after a trailing pipe.
C27_Witness ==
    /\ edited
    /\ Len(pagers) = 3
    /\ pagers[2].isErr
    /\ ~CommandEmpty(commands[1])
    /\ pagers[3].src = "empty"
    /\ CommandEmpty(commands[2])


(***************************************************************************)
(* A view after end-of-stream                                              *)
(***************************************************************************)
\* A view whose last read reported end-of-stream and whose screen is not full
\* has a read under way.
C28_KeepsTrying ==
    (lastErr = "EOF" /\ VisibleLineCount(nLines, CurrentLine) < ViewHeight) =>
        (readCmds # <<>> \/ readMsgs # <<>>)

\* Lines that reach the stream of a view that has seen end-of-stream get into
\* the Buffer, unless the screen fills first or a read fails with another
\* error.
C28_LateLinesAreRead ==
    (lastErr = "EOF" /\ arrived > 0) ~>
        \/ arrived = 0
        \/ VisibleLineCount(nLines, CurrentLine) >= ViewHeight
        \/ lastErr = "ERR"

\* C28: a view takes end-of-stream as "no more data for now": after a read
\* that returned it the view keeps reading, so that while its screen is not
\* full the bytes that reach the stream later are eventually read into the
\* Buffer.
C28_EndOfStreamIsNotFinal == []C28_KeepsTrying /\ C28_LateLinesAreRead


(***************************************************************************)
(* A program name without arguments                                        *)
(***************************************************************************)
\* parsed is Parse(rawShell): the text parses, its last command is a program
\* name alone, and the text does not end with a space.
C29_BareName(rawShell, parsed) ==
    /\ ~parsed.err
    /\ Len(parsed.commands) > 0
    /\ Len(parsed.commands[Len(parsed.commands)]) = 1
    /\ rawShell[Len(rawShell)] # " "

\* Such an edit is refused as a failed parse is: the error is set, commands
\* and pipes stay, nothing is launched. An edit that is accepted takes the
\* parsed commands and offsets and clears the error.
C29_Step ==
    EditStep =>
        \A parsed \in {Parse(text')} :
        \A bare \in {C29_BareName(text', parsed)} :
            /\ bare =>
                   /\ err' = "noargs"
                   /\ commands' = commands
                   /\ pipes' = pipes
                   /\ rebuilt' = {}
                   /\ \A k \in 1..Len(pagers') :
                          pagers'[k].cmd =>
                              (k <= Len(pagers) /\ SamePager(pagers'[k], pagers[k]))
            /\ (~parsed.err /\ ~bare) =>
                   /\ err' = "nil"
                   /\ commands' = parsed.commands
                   /\ pipes' = <<0>> \o parsed.pipes

\* The error shown is that of the last edit.
C29_ErrOfText ==
    edited =>
        \A parsed \in {Parse(text)} :
            /\ err = "noargs" <=> C29_BareName(text, parsed)
            /\ err = "parse" <=> parsed.err

\* C29: an edit whose text parses but ends in a program name without
\* arguments and without a space after it is handled like a parse error: the
\* error is surfaced, commands and pipe offsets keep their accepted values and
\* no subprocess is launched; an accepted edit clears the error.
C29_BareNameIsRefused == []C29_ErrOfText /\ [][C29_Step]_vars

\* The text "a |a" was refused: the accepted commands are still those of "a |".
C29_Witness ==
    /\ edited
    /\ err = "noargs"
    /\ text = <<"a", " ", "|", "a">>
    /\ Len(commands) = 2
    /\ CommandEmpty(commands[2])
    /\ Len(pagers) = 3
    /\ pagers[2].cmd


(***************************************************************************)
(* The order of the locks                                                  *)
(***************************************************************************)
\* Who holds a lock is at work: Buffer.mu is held only inside a Buffer method,
\* Shared.mu only between the Lock of Read and its deferred Unlock. Who waits
\* for Shared.mu holds no lock, who waits for Buffer.mu does not hold it.
C30_LockOrder ==
    /\ bmu # 0 => pc[bmu] \in InsideBuffer
    /\ mu # 0 =>
           pc[mu] \in {"wLen2", "inLen2", "wReadAt2", "inReadAt2", "underlying",
                       "wAppend", "inAppend", "unlock"}
    /\ \A c \in Cursors :
           /\ pc[c] = "wMu" => (mu # c /\ bmu # c)
           /\ pc[c] \in WantsBuffer => bmu # c
           /\ pc[c] \in InsideBuffer => bmu = c
           /\ pc[c] \in {"wLen1", "inLen1", "wReadAt1", "inReadAt1", "wOp", "inOp",
                         "idle"} => mu # c

\* A cursor that can take a step now, or is inside the underlying read.
C30_Running(c) ==
    \/ pc[c] \in InsideBuffer \cup {"underlying", "unlock"}
    \/ pc[c] \in WantsBuffer /\ bmu = 0
    \/ pc[c] = "wMu" /\ mu = 0

\* Whenever some cursor is in a call, some cursor is running.
C30_NoDeadlock ==
    (\E c \in Cursors : pc[c] # "idle") => \E c \in Cursors : C30_Running(c)

\* A lock is taken only when free, Buffer.mu by a cursor holding at most
\* Shared.mu, Shared.mu by a cursor holding nothing.
C30_Step ==
    \A c \in Cursors :
        /\ (bmu # c /\ bmu' = c) => bmu = 0
        /\ (mu # c /\ mu' = c) => (mu = 0 /\ bmu # c /\ bmu' # c)

\* C30: reads by any number of cursors and Buffer operations never deadlock:
\* Buffer.mu is taken holding at most Shared.mu, Shared.mu is never taken
\* holding Buffer.mu, and as the underlying read in progress returns every
\* cursor waiting for Shared.mu completes its Read.
C30_NoLockCycle ==
    /\ []C30_LockOrder
    /\ []C30_NoDeadlock
    /\ [][C30_Step]_vars
    /\ \A c \in Cursors : (pc[c] = "wMu") ~> (pc[c] = "idle")

\* One cursor is inside the underlying read holding Shared.mu while another
\* waits for Shared.mu.
C30_Witness ==
    \E c, d \in Cursors :
        /\ pc[c] = "underlying"
        /\ mu = c
        /\ pc[d] = "wMu"


(***************************************************************************)
(* The reads of one view                                                   *)
(***************************************************************************)
\* The reads of the view that are in flight: the readCmds handed to the
\* runtime, each run on a goroutine of its own, that have not sent their
\* readMsg yet. All of them call Read on the one Reader of the view.
C31_InFlight == Len(readCmds)

\* C31: a view has at most one read in flight on its cursor at any time,
\* whatever the order of read completions and down keys, so that no two tasks
\* use the cursor's offset at once.
C31_OneReadInFlight == C31_InFlight <= 1

====
